---- MODULE Spec2Model ----
(***************************************************************************)
(* GitHub Email Finder (src/gitkit/github_email_finder.py).                *)
(*                                                                         *)
(* The program is one sequential pipeline: look up the authenticated user, *)
(* page through the owned repositories, list the organizations and page    *)
(* through each organization's repositories (keeping push-access entries), *)
(* then scan every repository (commit pages, pull-request pages, the       *)
(* commit list of each pull request opened by the user) and aggregate the  *)
(* emails found.  One action of the model is one HTTP request together     *)
(* with everything the program does with its response up to the next       *)
(* request.  The GitHub API is the environment: the status and the body of *)
(* every response are chosen nondeterministically.  A paged listing holds  *)
(* `total` entries and is served PerPage entries per page.  Every request  *)
(* is answered, and every body is a JSON document whose members are        *)
(* present or missing.                                                     *)
(*                                                                         *)
(* The server's data is fixed at the start of a run by `limits`, the       *)
(* largest listing of each kind it holds.  Three kinds of server are       *)
(* explored: a small account whose repositories have a full history        *)
(* (Spec, the whole program); an account with long repository listings     *)
(* whose repositories have no commits (EnumSpec, the whole program); and   *)
(* one repository with a full history, from the first call of              *)
(* get_contribution_emails on (ScanSpec).  PagingSpec joins the last two.  *)
(*                                                                         *)
(* JSON objects are sets of <<key, value>> pairs; an optional member of an *)
(* object is a record [present, obj].                                      *)
(***************************************************************************)
EXTENDS Integers, Sequences, FiniteSets, TLC

\* ------------------------------------------------------------------ bounds
\* Entries the server serves per page.  The program asks for per_page=100 and
\* never reads the page size back: its loops depend only on whether a page is
\* empty, so the model scales the server's page size down.
PerPage == 2
\* Largest listing of owned repositories of the small account.
MaxOwned == 1
\* Largest organization list (one unpaged response).
MaxOrgs == 2
\* Largest repository listing of one organization of the small account.
MaxOrgRepos == 1
\* Largest listing of owned repositories of the account with long listings.
EnumMaxOwned == 3
\* Largest repository listing of one organization of that account.
EnumMaxOrgRepos == 3
\* Largest commit listing of one repository.
MaxCommits == 3
\* Largest pull-request listing of one repository.
MaxPRs == 2
\* Largest commit list of one pull request (one unpaged response).
MaxPrCommits == 1

\* --------------------------------------------------------------- constants
\* The only status the scanner accepts (lines 122, 151, 169).
HTTP_OK == 200

\* Statuses the server answers with: success, a 2xx that is not 200, errors.
Statuses == {200, 202, 404}

Emails == {"a@x.com", "b@y.org"}
Logins == {"alice", "Alice", "bob"}
AuthLogins == {"alice"}
ScanLogins == {"alice", "Alice"}
OrgLogins == {"acme", "globex"}

\* ------------------------------------------------------------ JSON helpers
Absent == [present |-> FALSE, obj |-> {}]
Object(o) == [present |-> TRUE, obj |-> o]

\* dict.get(key, {}) of an optional object member: the object, or {}.
GetObj(member) == IF member.present THEN member.obj ELSE {}

\* key in dict
HasKey(o, key) == \E p \in o : p[1] = key

\* dict[key]
Value(o, key) == (CHOOSE p \in o : p[1] = key)[2]

Min(a, b) == IF a < b THEN a ELSE b
Max(a, b) == IF a > b THEN a ELSE b

\* All sequences over S of length exactly n / at most n.
SeqOfLen(S, n) == [1..n -> S]
SeqUpTo(S, n) == UNION {SeqOfLen(S, k) : k \in 0..n}

\* ------------------------------------------------------- response bodies
\* Repositories the server lists as owned by the user, as (owner login, name),
\* and repositories it lists under an organization.  "acme/tool" is listed in
\* both.
Repos == {[owner |-> "alice", name |-> "proj"], [owner |-> "acme", name |-> "tool"]}
OrgRepos == {[owner |-> "acme", name |-> "tool"]}

PushTrue == Object({<<"push", TRUE>>})
\* The permissions member of a repository entry: missing, without a push key,
\* push=false, push=true.
PermKinds == {Absent, Object({<<"pull", TRUE>>}), Object({<<"push", FALSE>>}), PushTrue}

\* Entries of GET /user/repos (the owner of a repository can push to it).
OwnedEntries == {[owner |-> r.owner, name |-> r.name, permissions |-> PushTrue] : r \in Repos}
\* Entries of GET /orgs/{org}/repos.
OrgRepoEntries == {[owner |-> r.owner, name |-> r.name, permissions |-> p] : r \in OrgRepos, p \in PermKinds}
\* Entries of GET /user/orgs.
OrgEntries == {[login |-> o] : o \in OrgLogins}

\* The author or committer member of a commit: missing, an empty object, an
\* object without an "email" key, an object with one.
PersonKinds ==
    {Absent, Object({}), Object({<<"name", "n">>})} \cup {Object({<<"email", e>>}) : e \in Emails}
\* Entries of a commit list; `present` is whether the entry has a "commit" member.
CommitEntries ==
    {[present |-> TRUE, author |-> a, committer |-> c] : a \in PersonKinds, c \in PersonKinds}
    \cup {[present |-> FALSE, author |-> Absent, committer |-> Absent]}

\* The user member of a pull request: missing, an object without a "login"
\* key, an object with one.
UserKinds == {Absent, Object({<<"id", "7">>})} \cup {Object({<<"login", l>>}) : l \in Logins}

\* The server serves a listing of `n` entries PerPage per page: the number of
\* entries on page `p`.
BatchLen(n, p) == Min(PerPage, Max(0, n - (p - 1) * PerPage))

\* Pull requests of page p, numbered by their position in the listing.
PullPages(n, p) ==
    {[k \in 1..BatchLen(n, p) |-> [number |-> (p - 1) * PerPage + k, user |-> us[k]]] :
        us \in SeqOfLen(UserKinds, BatchLen(n, p))}

\* ------------------------------------------- pure functions of the program
\* requests.Response.raise_for_status: raises HTTPError on 4xx and 5xx.
RaiseForStatus(status) == status >= 400 /\ status < 600

\* HasPush with the defaults of the two .get calls taken as True.
HasPushDefaultTrue(repo) ==
    LET perms == GetObj(repo.permissions)
    IN  IF HasKey(perms, "push") THEN Value(perms, "push") ELSE TRUE

\* repo.get("permissions", {}).get("push", False)
HasPush(repo) ==
    LET perms == GetObj(repo.permissions)
    IN  IF HasKey(perms, "push") THEN Value(perms, "push") ELSE FALSE

\* [repo for repo in batch if repo.get("permissions", {}).get("push", False)]
PushRepos(batch) == SelectSeq(batch, HasPush)

\* f"{repo_owner}/{repo_name}"
RepoKey(repo) == repo.owner \o "/" \o repo.name

\* `if author and "email" in author: emails.add(author["email"])`, as the set
\* of emails the statement adds.
PersonEmail(member) ==
    LET person == GetObj(member)
    IN  IF person # {} /\ HasKey(person, "email") THEN {Value(person, "email")} ELSE {}

\* CommitEmails without the committer half of the loop body.
CommitEmailsAuthorOnly(entry) ==
    LET commit == IF entry.present THEN entry ELSE [author |-> Absent, committer |-> Absent]
    IN  PersonEmail(commit.author)

\* The body of `for commit in commits`: the emails one commit adds.
CommitEmails(entry) ==
    LET commit == IF entry.present THEN entry ELSE [author |-> Absent, committer |-> Absent]
    IN  PersonEmail(commit.author) \cup PersonEmail(commit.committer)

\* The whole `for commit in commits` loop.
BatchEmails(commits) == UNION {CommitEmails(commits[k]) : k \in 1..Len(commits)}

\* str.lower on the logins of the model.
Lower(l) == IF l = "Alice" THEN "alice" ELSE l

\* IsUserPr comparing the logins without regard to case.
IsUserPrAnyCase(pr, login) ==
    LET user == GetObj(pr.user)
    IN  HasKey(user, "login") /\ Lower(Value(user, "login")) = Lower(login)

\* pr.get("user", {}).get("login") == username
IsUserPr(pr, login) ==
    LET user == GetObj(pr.user)
    IN  HasKey(user, "login") /\ Value(user, "login") = login

\* [pr for pr in prs if pr.get("user", {}).get("login") == username]
UserPrs(prs, login) == SelectSeq(prs, LAMBDA pr : IsUserPr(pr, login))

\* AllRepos with the organization repositories first.
AllReposOrgFirst(owned, org) == org \o owned

\* all_repos = user_repos + org_repos
AllRepos(owned, org) == owned \o org

\* repo_emails[key] = emails, on a dict that keeps insertion order.
SetRepoEmails(re, key, found) ==
    IF \E k \in 1..Len(re) : re[k].key = key
    THEN [k \in 1..Len(re) |-> IF re[k].key = key THEN [key |-> key, emails |-> found] ELSE re[k]]
    ELSE Append(re, [key |-> key, emails |-> found])

\* NextPage without the increment.
SamePage(p) == p

\* page += 1
NextPage(p) == p + 1

\* ------------------------------------------------------------ server data
\* The small account: every listing is short, repositories have commits and
\* pull requests.
RunLimits ==
    [owned |-> MaxOwned, orgs |-> MaxOrgs, org_repos |-> MaxOrgRepos,
     commits |-> MaxCommits, pulls |-> MaxPRs, pr_commits |-> MaxPrCommits]
\* The account with long listings: its repositories have no commits and at
\* most one pull request, whose commit list is empty.
EnumLimits ==
    [owned |-> EnumMaxOwned, orgs |-> MaxOrgs, org_repos |-> EnumMaxOrgRepos,
     commits |-> 0, pulls |-> 1, pr_commits |-> 0]
\* The account with one owned repository and no organization.
ScanLimits ==
    [owned |-> 1, orgs |-> 0, org_repos |-> 0,
     commits |-> MaxCommits, pulls |-> MaxPRs, pr_commits |-> MaxPrCommits]

\* ------------------------------------------------------------------ state
VARIABLES
    pc,             \* where main is: the next request, or how the run ended
    token,          \* args.token ("" when --token is missing)
    username,       \* user["login"]
    user_repos,     \* get_user_repos: repos; main: user_repos
    orgs,           \* get_org_repos: orgs
    org_i,          \* get_org_repos: position of `for org in orgs`
    all_org_repos,  \* get_org_repos: all_org_repos; main: org_repos
    all_repos,      \* main: all_repos
    repo_i,         \* main: position of `for i, repo in enumerate(all_repos, 1)`
    all_emails,     \* main: all_emails
    repo_emails,    \* main: repo_emails, as a sequence of [key, emails] in insertion order
    page,           \* the page counter of the running pagination loop
    emails,         \* get_contribution_emails: emails
    user_prs,       \* get_contribution_emails: user_prs
    pr_i,           \* get_contribution_emails: position of `for pr in user_prs`
    total,          \* server: size of the listing the running loop pages through
    limits,         \* server: the largest listing of each kind
    reqs,           \* history: page requests the running loop has issued
    lastSite,       \* history: call site of the last request
    lastStatus,     \* history: status of the last response
    expected,       \* history: emails present in the commits fetched with status 200 by the running scan
    commitFailedAt, \* history: the page on which the running scan's commit loop got a non-200 status (0: none)
    scanLog         \* history: repositories get_contribution_emails was called on

enumVars == <<username, user_repos, orgs, org_i, all_org_repos, all_repos>>
aggVars == <<all_emails, repo_emails>>
scanVars == <<repo_i, emails, user_prs, pr_i, expected, commitFailedAt, scanLog>>
loopVars == <<page, total>>
vars == <<pc, token, limits, enumVars, aggVars, scanVars, loopVars, reqs, lastSite, lastStatus>>

\* The state when main starts, against a server with the data `l`.
Start(l) ==
    /\ pc = "start"
    /\ token \in {"", "ghp_token"}
    /\ limits = l
    /\ username = ""
    /\ user_repos = <<>>
    /\ orgs = <<>>
    /\ org_i = 0
    /\ all_org_repos = <<>>
    /\ all_repos = <<>>
    /\ repo_i = 0
    /\ all_emails = {}
    /\ repo_emails = <<>>
    /\ page = 0
    /\ emails = {}
    /\ user_prs = <<>>
    /\ pr_i = 0
    /\ total = 0
    /\ reqs = 0
    /\ lastSite = "none"
    /\ lastStatus = 0
    /\ expected = {}
    /\ commitFailedAt = 0
    /\ scanLog = <<>>

Init == Start(RunLimits)

EnumInit == Start(EnumLimits)

\* The state in which main calls get_contribution_emails on the only
\* repository of the account (lines 205-237, after an empty organization list).
ScanInit ==
    /\ pc = "commits"
    /\ token = "ghp_token"
    /\ limits = ScanLimits
    /\ username \in ScanLogins
    /\ \E repo \in OwnedEntries :
          /\ user_repos = <<repo>>
          /\ all_repos = <<repo>>
          /\ scanLog = <<repo>>
    /\ orgs = <<>>
    /\ org_i = 0
    /\ all_org_repos = <<>>
    /\ repo_i = 1
    /\ all_emails = {}
    /\ repo_emails = <<>>
    /\ page = 1
    /\ emails = {}
    /\ user_prs = <<>>
    /\ pr_i = 0
    /\ total \in 0..ScanLimits.commits
    /\ reqs = 0
    /\ lastSite = "orgs"
    /\ lastStatus = HTTP_OK
    /\ expected = {}
    /\ commitFailedAt = 0

\* The response of a request is recorded.
Responded(site, status) ==
    /\ lastSite' = site
    /\ lastStatus' = status

\* raise_for_status raised: main's `except RequestException` prints the error
\* and calls sys.exit(1).
Raised ==
    /\ pc' = "error"
    /\ UNCHANGED <<token, limits, enumVars, aggVars, scanVars, loopVars>>

\* A pagination loop starts at page 1, against a listing of at most `max` entries.
StartLoop(max) ==
    /\ page' = 1
    /\ reqs' = 0
    /\ \E n \in 0..max : total' = n

\* main, lines 189-202: without a token, print the usage and sys.exit(1)
\* before any request.
ParseArgs ==
    /\ pc = "start"
    /\ pc' = IF token = "" THEN "usage" ELSE "get_authenticated_user"
    /\ UNCHANGED <<token, limits, enumVars, aggVars, scanVars, loopVars, reqs, lastSite, lastStatus>>

\* get_contribution_emails is called on repos[k] (main, lines 229-237) and
\* its commit loop starts (lines 111-114).
BeginScan(repos, k) ==
    /\ repo_i' = k
    /\ scanLog' = Append(scanLog, repos[k])
    /\ emails' = {}
    /\ user_prs' = <<>>
    /\ pr_i' = 0
    /\ expected' = {}
    /\ commitFailedAt' = 0
    /\ pc' = "commits"
    /\ StartLoop(limits.commits)

\* main, lines 216-229: get_org_repos has returned; combine the two lists and
\* enter the scan loop, or go to the report when there is nothing to scan.
ScanAll(repos) ==
    /\ all_repos' = repos
    /\ orgs' = <<>>
    /\ org_i' = 0
    /\ IF repos = <<>>
       THEN /\ pc' = "report"
            /\ UNCHANGED <<scanVars, loopVars, reqs>>
       ELSE BeginScan(repos, 1)

\* get_authenticated_user (lines 41-43) and main, lines 205-211.
AuthenticatedUserResponse(status, body) ==
    /\ Responded("user", status)
    /\ IF RaiseForStatus(status)
       THEN Raised /\ UNCHANGED reqs
       ELSE /\ username' = body.login
            /\ pc' = "get_user_repos"
            /\ StartLoop(limits.owned)
            /\ UNCHANGED <<token, limits, user_repos, orgs, org_i, all_org_repos, all_repos, aggVars, scanVars>>

GetAuthenticatedUser ==
    /\ pc = "get_authenticated_user"
    /\ \E status \in Statuses, login \in AuthLogins :
          AuthenticatedUserResponse(status, [login |-> login])

\* get_user_repos, one turn of `while True` (lines 53-65).
UserReposResponse(status, batch) ==
    /\ Responded("user_repos", status)
    /\ reqs' = reqs + 1
    /\ IF RaiseForStatus(status)
       THEN Raised
       ELSE IF batch = <<>>
       THEN /\ pc' = "get_orgs"
            /\ UNCHANGED <<token, limits, enumVars, aggVars, scanVars, loopVars>>
       ELSE /\ user_repos' = user_repos \o batch
            /\ page' = NextPage(page)
            /\ UNCHANGED <<pc, token, limits, username, orgs, org_i, all_org_repos, all_repos,
                           aggVars, scanVars, total>>

GetUserRepos ==
    /\ pc = "get_user_repos"
    /\ \E status \in Statuses :
          IF RaiseForStatus(status)
          THEN UserReposResponse(status, <<>>)
          ELSE \E batch \in SeqOfLen(OwnedEntries, BatchLen(total, page)) : UserReposResponse(status, batch)

\* get_org_repos, the organization list (lines 75-83).
OrgsResponse(status, body) ==
    /\ Responded("orgs", status)
    /\ IF RaiseForStatus(status)
       THEN Raised /\ UNCHANGED reqs
       ELSE /\ all_org_repos' = <<>>
            /\ UNCHANGED <<token, limits, username, user_repos, aggVars>>
            /\ IF body = <<>>
               THEN ScanAll(AllRepos(user_repos, <<>>))
               ELSE /\ orgs' = body
                    /\ org_i' = 1
                    /\ pc' = "get_org_repos"
                    /\ StartLoop(limits.org_repos)
                    /\ UNCHANGED <<all_repos, scanVars>>

GetOrgs ==
    /\ pc = "get_orgs"
    /\ \E status \in Statuses :
          IF RaiseForStatus(status)
          THEN OrgsResponse(status, <<>>)
          ELSE \E body \in SeqUpTo(OrgEntries, limits.orgs) : OrgsResponse(status, body)

\* get_org_repos, `if not batch: break` (lines 93-94): the next organization's
\* loop starts, or after the last organization get_org_repos returns.
OrgReposBreak ==
    /\ UNCHANGED <<token, limits, username, user_repos, all_org_repos, aggVars>>
    /\ IF org_i < Len(orgs)
       THEN /\ org_i' = org_i + 1
            /\ StartLoop(limits.org_repos)
            /\ UNCHANGED <<pc, orgs, all_repos, scanVars>>
       ELSE ScanAll(AllRepos(user_repos, all_org_repos))

\* get_org_repos, lines 96-101: keep the push-access entries, next page.
OrgReposExtend(batch) ==
    /\ all_org_repos' = all_org_repos \o PushRepos(batch)
    /\ page' = NextPage(page)
    /\ reqs' = reqs + 1
    /\ UNCHANGED <<pc, token, limits, username, user_repos, orgs, org_i, all_repos,
                   aggVars, scanVars, total>>

\* OrgReposResponse with a failed page treated as the end of the listing.
OrgReposResponseTolerant(status, batch) ==
    /\ Responded("org_repos", status)
    /\ IF RaiseForStatus(status) \/ batch = <<>>
       THEN OrgReposBreak
       ELSE OrgReposExtend(batch)

\* get_org_repos, one turn of `while True` for orgs[org_i] (lines 85-103).
OrgReposResponse(status, batch) ==
    /\ Responded("org_repos", status)
    /\ IF RaiseForStatus(status)
       THEN Raised /\ reqs' = reqs + 1
       ELSE IF batch = <<>>
       THEN OrgReposBreak
       ELSE OrgReposExtend(batch)

GetOrgRepos ==
    /\ pc = "get_org_repos"
    /\ \E status \in Statuses :
          IF RaiseForStatus(status)
          THEN OrgReposResponse(status, <<>>)
          ELSE \E batch \in SeqOfLen(OrgRepoEntries, BatchLen(total, page)) : OrgReposResponse(status, batch)

\* History only: the emails that are present in a list of commits, read off
\* the JSON (every value stored under an "email" key of an author or
\* committer object).
PresentEmails(commits) ==
    {p[2] : p \in {q \in UNION {commits[k].author.obj \cup commits[k].committer.obj :
                                   k \in 1..Len(commits)} : q[1] = "email"}}

\* get_contribution_emails, a `break` of the commit loop (lines 122-127): the
\* pull-request loop starts at page 1 (lines 143-144).
CommitsBreak ==
    /\ pc' = "pulls"
    /\ StartLoop(limits.pulls)
    /\ UNCHANGED <<emails, expected>>

\* get_contribution_emails, lines 129-140: collect the emails of the page,
\* next page.
CommitsExtend(commits) ==
    /\ emails' = emails \cup BatchEmails(commits)
    /\ expected' = expected \cup PresentEmails(commits)
    /\ page' = NextPage(page)
    /\ reqs' = reqs + 1
    /\ UNCHANGED <<pc, total, commitFailedAt>>

\* CommitsResponse with raise_for_status in place of the status test.
CommitsResponseRaising(status, commits) ==
    /\ Responded("commits", status)
    /\ IF status # HTTP_OK
       THEN Raised /\ reqs' = reqs + 1
       ELSE /\ UNCHANGED <<token, limits, enumVars, aggVars, repo_i, user_prs, pr_i, scanLog>>
            /\ IF commits = <<>>
               THEN CommitsBreak /\ UNCHANGED commitFailedAt
               ELSE CommitsExtend(commits)

\* CommitsResponse with `return emails` in place of the first `break`.
CommitsResponseReturning(status, commits) ==
    /\ Responded("commits", status)
    /\ UNCHANGED <<token, limits, enumVars, aggVars, repo_i, user_prs, pr_i, scanLog>>
    /\ IF status # HTTP_OK
       THEN /\ commitFailedAt' = page
            /\ pc' = "returned"
            /\ reqs' = reqs + 1
            /\ UNCHANGED <<emails, expected, loopVars>>
       ELSE IF commits = <<>>
       THEN CommitsBreak /\ UNCHANGED commitFailedAt
       ELSE CommitsExtend(commits)

\* get_contribution_emails, one turn of the commit loop (lines 115-143).
CommitsResponse(status, commits) ==
    /\ Responded("commits", status)
    /\ UNCHANGED <<token, limits, enumVars, aggVars, repo_i, user_prs, pr_i, scanLog>>
    /\ IF status # HTTP_OK
       THEN CommitsBreak /\ commitFailedAt' = page
       ELSE IF commits = <<>>
       THEN CommitsBreak /\ UNCHANGED commitFailedAt
       ELSE CommitsExtend(commits)

GetCommits ==
    /\ pc = "commits"
    /\ \E status \in Statuses :
          IF status # HTTP_OK
          THEN CommitsResponse(status, <<>>)
          ELSE \E commits \in SeqOfLen(CommitEntries, BatchLen(total, page)) : CommitsResponse(status, commits)

\* get_contribution_emails, one turn of the pull-request loop up to its first
\* pull-request commit request (lines 144-162, and 183-185 when no pull
\* request of the page is the user's).
PullsResponse(status, prs) ==
    /\ Responded("pulls", status)
    /\ reqs' = reqs + 1
    /\ UNCHANGED <<token, limits, enumVars, aggVars, repo_i, emails, expected, commitFailedAt, scanLog, total>>
    /\ IF status # HTTP_OK \/ prs = <<>>
       THEN /\ pc' = "returned"
            /\ UNCHANGED <<user_prs, pr_i, page>>
       ELSE /\ user_prs' = UserPrs(prs, username)
            /\ IF UserPrs(prs, username) = <<>>
               THEN /\ page' = NextPage(page)
                    /\ UNCHANGED <<pc, pr_i>>
               ELSE /\ pc' = "pr_commits"
                    /\ pr_i' = 1
                    /\ UNCHANGED page

GetPulls ==
    /\ pc = "pulls"
    /\ \E status \in Statuses :
          IF status # HTTP_OK
          THEN PullsResponse(status, <<>>)
          ELSE \E prs \in PullPages(total, page) : PullsResponse(status, prs)

\* get_contribution_emails, lines 169-181: the emails of a pull request's
\* commits are collected when its commit list came with status 200.
PrCommitsCollect(status, pr_commits) ==
    IF status = HTTP_OK
    THEN /\ emails' = emails \cup BatchEmails(pr_commits)
         /\ expected' = expected \cup PresentEmails(pr_commits)
    ELSE UNCHANGED <<emails, expected>>

\* get_contribution_emails, the next turn of `for pr in user_prs`, or after
\* the last one `page += 1` (line 183) and the next pull-request page.
PrCommitsAdvance ==
    IF pr_i < Len(user_prs)
    THEN /\ pr_i' = pr_i + 1
         /\ UNCHANGED <<pc, user_prs, page>>
    ELSE /\ page' = NextPage(page)
         /\ pc' = "pulls"
         /\ user_prs' = <<>>
         /\ pr_i' = 0

\* PrCommitsResponse with a failed commit list ending the pull-request scan,
\* as a failed pull-request page does.
PrCommitsResponseBreaking(status, pr_commits) ==
    /\ Responded("pr_commits", status)
    /\ UNCHANGED <<token, limits, enumVars, aggVars, repo_i, commitFailedAt, scanLog, total, reqs>>
    /\ PrCommitsCollect(status, pr_commits)
    /\ IF status = HTTP_OK
       THEN PrCommitsAdvance
       ELSE /\ pc' = "returned"
            /\ UNCHANGED <<user_prs, pr_i, page>>

\* get_contribution_emails, one turn of `for pr in user_prs` (lines 162-183).
PrCommitsResponse(status, pr_commits) ==
    /\ Responded("pr_commits", status)
    /\ UNCHANGED <<token, limits, enumVars, aggVars, repo_i, commitFailedAt, scanLog, total, reqs>>
    /\ PrCommitsCollect(status, pr_commits)
    /\ PrCommitsAdvance

GetPrCommits ==
    /\ pc = "pr_commits"
    /\ \E status \in Statuses :
          IF status # HTTP_OK
          THEN PrCommitsResponse(status, <<>>)
          ELSE \E pr_commits \in SeqUpTo(CommitEntries, limits.pr_commits) : PrCommitsResponse(status, pr_commits)

\* main, lines 238-240, with `found` the set get_contribution_emails returned.
Aggregate(found) ==
    IF found # {}
    THEN /\ repo_emails' = SetRepoEmails(repo_emails, RepoKey(all_repos[repo_i]), found)
         /\ all_emails' = all_emails \cup found
    ELSE UNCHANGED aggVars

\* main, lines 236-240 and the next turn of `for i, repo in enumerate(...)`.
ScanReturned ==
    /\ pc = "returned"
    /\ Aggregate(emails)
    /\ UNCHANGED <<token, limits, enumVars, lastSite, lastStatus>>
    /\ IF repo_i < Len(all_repos)
       THEN BeginScan(all_repos, repo_i + 1)
       ELSE /\ pc' = "report"
            /\ UNCHANGED <<scanVars, loopVars, reqs>>

\* main, lines 242-255: print the results; the run ends with status 0.
Report ==
    /\ pc = "report"
    /\ pc' = "done"
    /\ UNCHANGED <<token, limits, enumVars, aggVars, scanVars, loopVars, reqs, lastSite, lastStatus>>

\* The exit status of the process (-1 while it runs).
ExitStatus ==
    CASE pc \in {"usage", "error"} -> 1
      [] pc = "done" -> 0
      [] OTHER -> -1

Next ==
    \/ ParseArgs
    \/ GetAuthenticatedUser
    \/ GetUserRepos
    \/ GetOrgs
    \/ GetOrgRepos
    \/ GetCommits
    \/ GetPulls
    \/ GetPrCommits
    \/ ScanReturned
    \/ Report

\* The actions of get_contribution_emails and of main after its first call.
ScanNext ==
    \/ GetCommits
    \/ GetPulls
    \/ GetPrCommits
    \/ ScanReturned
    \/ Report

Spec == Init /\ [][Next]_vars

EnumSpec == EnumInit /\ [][Next]_vars

ScanSpec == ScanInit /\ [][ScanNext]_vars

PagingSpec == (EnumInit \/ ScanInit) /\ [][Next]_vars

\* ================================================================== claims
\* The union of the per-repository sets stored in repo_emails.
RepoEmailsUnion == UNION {repo_emails[k].emails : k \in 1..Len(repo_emails)}

\* ceil(a / b)
CeilDiv(a, b) == (a + b - 1) \div b

\* The call sites whose response goes through raise_for_status.
RaisingSites == {"user", "user_repos", "orgs", "org_repos"}
\* The call sites whose status is compared with 200.
ScanSites == {"commits", "pulls", "pr_commits"}

\* C1: when main reaches the report, the global set all_emails is the union
\* of the per-repository sets of repo_emails.
C1_GlobalIsUnion == pc \in {"report", "done"} => all_emails = RepoEmailsUnion

\* C2, as stated: a failed organization-repository page ends that
\* organization's pagination only; the run does not exit with status 1.
C2_OrgPageFailureTolerated ==
    (lastSite = "org_repos" /\ RaiseForStatus(lastStatus)) => ExitStatus # 1

\* C2, amended: a 4xx or 5xx organization-repository page raises out of
\* get_org_repos: main exits with status 1, nothing it had collected is
\* combined into all_repos and no repository is scanned.
C2_OrgPageFailureAborts ==
    (lastSite = "org_repos" /\ RaiseForStatus(lastStatus))
        => (pc = "error" /\ ExitStatus = 1 /\ all_repos = <<>> /\ scanLog = <<>>)

\* C2 witness: a page failed after push-access repositories had been
\* collected and with organizations still to list.
C2_Witness ==
    /\ lastSite = "org_repos"
    /\ RaiseForStatus(lastStatus)
    /\ all_org_repos # <<>>
    /\ org_i < Len(orgs)

\* C3, as stated: the run is aborted by a response at two call sites only, the
\* user lookup and the owned-repository listing.
C3_TwoFatalSites == pc = "error" => lastSite \in {"user", "user_repos"}

\* C3, amended: a 4xx or 5xx response aborts the run, before any repository is
\* scanned, at exactly the four call sites that use raise_for_status (user
\* lookup, owned-repository pages, organization list, organization-repository
\* pages); a non-200 response at a commit page, a pull-request page or a
\* pull-request commit list never leads to exit status 1.
C3_FourFatalSites ==
    /\ (lastSite \in RaisingSites /\ RaiseForStatus(lastStatus)) => (pc = "error" /\ scanLog = <<>>)
    /\ pc = "error" => (lastSite \in RaisingSites /\ RaiseForStatus(lastStatus) /\ ExitStatus = 1)
    /\ (lastSite \in ScanSites /\ lastStatus # HTTP_OK) => ExitStatus # 1

\* C3 witness: the run was aborted by the organization list.
C3_Witness == pc = "error" /\ lastSite = "orgs" /\ user_repos # <<>>

\* C4: a non-200 commit page ends the commit loop without an error and without
\* adding an email, the pull-request loop of the same repository starts at
\* page 1, and what the scan returns is still every email of the commit lists
\* it fetched, those of the pull-request scan included.
C4_CommitFailureKeepsPulls ==
    /\ [][(pc = "commits" /\ lastStatus' # HTTP_OK)
             => (pc' = "pulls" /\ page' = 1 /\ reqs' = 0 /\ emails' = emails
                 /\ repo_i' = repo_i /\ scanLog' = scanLog)]_vars
    /\ [](pc = "returned" /\ commitFailedAt # 0 => emails = expected)

\* C4 witness: the first commit page failed and the scan returns emails, which
\* the pull-request scan found.
C4_Witness == pc = "returned" /\ commitFailedAt = 1 /\ emails # {}

\* C5: the set get_contribution_emails returns is exactly the set of emails
\* present in the commits of the pages and pull-request commit lists it
\* fetched with status 200.
C5_ExactExtraction == emails = expected

\* C5 witness: a scan returns both emails.
C5_Witness == pc = "returned" /\ emails = Emails

\* C6: every repository get_org_repos keeps has permissions.push = true, and
\* so has every organization repository the scanner is called on.
C6_PushOnly ==
    /\ \A k \in 1..Len(all_org_repos) : all_org_repos[k].permissions = PushTrue
    /\ \A k \in 1..Len(scanLog) : k > Len(user_repos) => scanLog[k].permissions = PushTrue

\* C6 witness: the first page of an organization served two entries and one of
\* them was left out.
C6_Witness ==
    pc = "get_org_repos" /\ org_i = 1 /\ page = 2 /\ total = 2 /\ Len(all_org_repos) = 1

\* C7: every pull request whose commit list is requested was opened by exactly
\* the authenticated login.
C7_ExactLogin ==
    /\ \A k \in 1..Len(user_prs) : user_prs[k].user = Object({<<"login", username>>})
    /\ pc = "pr_commits" => pr_i \in 1..Len(user_prs)

\* C7 witness: of the two pull requests of a page one is the user's.
C7_Witness == pc = "pr_commits" /\ page = 1 /\ total = 2 /\ Len(user_prs) = 1

\* The pagination loops and the states in which each is about to request a page.
PageLoops == {"get_user_repos", "get_org_repos", "commits", "pulls"}

\* The status a page must have for its loop to read it.
Accepted(loop, status) ==
    IF loop \in {"get_user_repos", "get_org_repos"} THEN ~RaiseForStatus(status) ELSE status = HTTP_OK

\* C8: a pagination loop requests pages 1, 2, 3, ... in order, at most
\* ceil(total / PerPage) + 1 of them, and goes on after a page exactly when the
\* page was read and was not empty.
C8_Pagination ==
    /\ [](pc \in PageLoops => (page = reqs + 1 /\ reqs + 1 <= CeilDiv(total, PerPage) + 1))
    /\ [](pc = "pr_commits" => (page = reqs /\ reqs <= CeilDiv(total, PerPage)))
    /\ [][(pc \in PageLoops)
             => ((pc' \in {pc, "pr_commits"} /\ reqs' = reqs + 1 /\ total' = total)
                 <=> (Accepted(pc, lastStatus') /\ BatchLen(total, page) > 0))]_vars
    /\ [][(pc = "pr_commits" /\ pc' = "pulls") => page' = page + 1]_vars

\* C8 witness: the loop of the second organization is about to issue its last
\* allowed request, for a page after two non-empty ones.
C8_Witness ==
    pc = "get_org_repos" /\ org_i = 2 /\ total = 3 /\ page = 3 /\ reqs = CeilDiv(total, PerPage)

\* C9: the scanner is called on the repositories in enumeration order, owned
\* before organization repositories, once per entry, and a run that reaches
\* the report has called it on every entry.
C9_ScanOrder ==
    /\ scanLog = SubSeq(user_repos \o all_org_repos, 1, repo_i)
    /\ pc \in {"report", "done"} => scanLog = user_repos \o all_org_repos
    /\ pc \in {"commits", "pulls", "pr_commits", "returned"} => repo_i = Len(scanLog) /\ repo_i >= 1

\* C9 witness: a run ends having scanned a repository twice, once as owned and
\* once as an organization repository, the last request having failed.
C9_Witness ==
    /\ pc = "done"
    /\ Len(user_repos) = 1
    /\ Len(scanLog) = 3
    /\ RepoKey(scanLog[1]) = RepoKey(scanLog[2])
    /\ commitFailedAt = 1
    /\ lastStatus # HTTP_OK

\* C10: a non-200 commit list of one pull request adds no email and only moves
\* the scan to the next matching pull request of the page, or after the last
\* one to the next pull-request page; a non-200 pull-request page ends the scan.
C10_PrCommitFailureSkipsPr ==
    /\ [][(pc = "pr_commits" /\ lastStatus' # HTTP_OK)
             => (/\ emails' = emails
                 /\ pr_i < Len(user_prs)
                       => (pc' = "pr_commits" /\ pr_i' = pr_i + 1 /\ user_prs' = user_prs /\ page' = page)
                 /\ pr_i = Len(user_prs) => (pc' = "pulls" /\ page' = page + 1))]_vars
    /\ [][(pc = "pulls" /\ lastStatus' # HTTP_OK) => pc' = "returned"]_vars

\* C10 witness: the commit list of the first matching pull request failed and
\* the second one of the same page is next.
C10_Witness == pc = "pr_commits" /\ pr_i = 2 /\ lastSite = "pr_commits" /\ lastStatus # HTTP_OK
====
